---- MODULE Spec2Model ----
(***************************************************************************)
(* A model of risifetch's src/fields.rs: the probes get_user_host_name,    *)
(* get_distro_name, get_kernel, get_shell and the formatters format_uptime *)
(* and format_battery.                                                     *)
(*                                                                         *)
(* A Rust String is a sequence of one-character strings.  A style token of *)
(* crate::colors (an escape sequence) is one element of such a sequence,   *)
(* written "<yellow>", "<cyan>", "<bold>", "<reset>".                      *)
(*                                                                         *)
(* The external sources (environment, /etc files, host name, durations)    *)
(* are variables; each probe action draws the state of the sources it      *)
(* reads, runs the whole function on it and records what it returned.      *)
(***************************************************************************)
EXTENDS Integers, Sequences, FiniteSets, TLC

VARIABLES
    USER,         \* env::var_os("USER") as seen by the last get_user_host_name
    hostname,     \* nix::unistd::gethostname as seen by the last get_user_host_name
    lsb_release,  \* /etc/lsb-release as seen by the last get_distro_name
    os_release,   \* /etc/os-release as seen by the last get_distro_name
    SHELL,        \* env::var_os("SHELL") as seen by the last get_shell
    time,         \* the Duration (whole seconds) given to the last formatter
    show_kern_name, \* the flag given to the last get_kernel
    opened,       \* the files the last get_distro_name opened, in order
    result        \* what the last call returned

vars == <<USER, hostname, lsb_release, os_release, SHELL, time, show_kern_name,
          opened, result>>

-----------------------------------------------------------------------------
(* Bounds of the model *)

MaxLines == 2
MaxNameLen == 2
MaxShellLen == 4
MaxSecs == 7325

-----------------------------------------------------------------------------
(* Strings *)

NL == "\n"
QUOTE == "\""
SPACE == " "
SLASH == "/"

\* crate::colors, consumed as opaque style tokens
yellow == "<yellow>"
cyan == "<cyan>"
bold == "<bold>"
reset == "<reset>"
StyleTokens == {yellow, cyan, bold, reset}

RECURSIVE Concat(_)
Concat(ss) == IF ss = <<>> THEN <<>> ELSE Head(ss) \o Concat(Tail(ss))

\* All sequences over S of length at most n
SeqsUpTo(S, n) == UNION {[1..k -> S] : k \in 0..n}

\* Bytes the UTF-8 encoding of one character takes
\* "e_acute" stands for the one character U+00E9, two bytes in UTF-8
EACUTE == "e_acute"
Utf8Width(c) == IF c = EACUTE THEN 2 ELSE 1

\* String::len / str::len: the length in bytes
RECURSIVE len(_)
len(s) == IF s = <<>> THEN 0 ELSE Utf8Width(Head(s)) + len(Tail(s))

\* str::replace(c, ""): drop every occurrence of the character c
RECURSIVE replace(_, _)
replace(s, c) ==
    IF s = <<>> THEN <<>>
    ELSE IF Head(s) = c THEN replace(Tail(s), c)
         ELSE <<Head(s)>> \o replace(Tail(s), c)

\* {key:7}: the key left-aligned, padded with spaces to 7 characters
RECURSIVE Pad7(_)
Pad7(key) == IF Len(key) >= 7 THEN key ELSE Pad7(key \o <<SPACE>>)

\* Display of an unsigned integer: its decimal digits
Digit(d) == <<"0", "1", "2", "3", "4", "5", "6", "7", "8", "9">>[d + 1]

RECURSIVE Display(_)
Display(n) == IF n < 10 THEN <<Digit(n)>>
              ELSE Display(n \div 10) \o <<Digit(n % 10)>>

\* "bullet" stands for the one character U+25AA
BULLET == "bullet"

format_data(key, value) ==
    <<yellow, BULLET, bold, SPACE>> \o Pad7(key) \o <<reset, SPACE, cyan>> \o value

-----------------------------------------------------------------------------
(* Return values *)

Ok(v) == [outcome |-> "Ok", value |-> v, separator |-> <<>>]
OkPair(v, sep) == [outcome |-> "Ok", value |-> v, separator |-> sep]
Err(msg) == [outcome |-> "Err", value |-> msg, separator |-> <<>>]
\* Option::unwrap / Result::unwrap on None / Err: the thread panics
Panic == [outcome |-> "panic", value |-> <<>>, separator |-> <<>>]

Error_upper == <<"E", "r", "r", "o", "r">>
error_lower == <<"e", "r", "r", "o", "r">>

-----------------------------------------------------------------------------
(* match_regex and the three patterns it is called with *)

NoMatch == [found |-> FALSE, capture |-> <<>>]
Match(c) == [found |-> TRUE, capture |-> c]

StartsWithAt(text, i, lit) ==
    /\ i + Len(lit) - 1 <= Len(text)
    /\ \A k \in 1..Len(lit) : text[i + k - 1] = lit[k]

\* [^\n"]+ from position q, greedy: the index of the last character of the
\* longest run (q - 1 when the run is empty)
RECURSIVE RunEnd(_, _)
RunEnd(text, q) ==
    IF q <= Len(text) /\ text[q] # NL /\ text[q] # QUOTE
    THEN RunEnd(text, q + 1)
    ELSE q - 1

\* The pattern  key "? (?P<distro_name>[^\n"]+) "? \n  tried at position i.
\* Only the greedy choices can succeed: a skipped opening quote or a shorter
\* run leaves a character that is neither '"' nor '\n' before the final \n.
MatchAssignAt(text, i, key) ==
    IF ~StartsWithAt(text, i, key) THEN NoMatch
    ELSE LET p == i + Len(key)
             q == IF p <= Len(text) /\ text[p] = QUOTE THEN p + 1 ELSE p
             r == RunEnd(text, q)
             t == IF r + 1 <= Len(text) /\ text[r + 1] = QUOTE THEN r + 2 ELSE r + 1
         IN  IF r >= q /\ t <= Len(text) /\ text[t] = NL
             THEN Match(SubSeq(text, q, r))
             ELSE NoMatch

\* Regex::captures: the match at the leftmost position that has one
RECURSIVE CapturesAssignFrom(_, _, _)
CapturesAssignFrom(text, i, key) ==
    IF i > Len(text) THEN NoMatch
    ELSE IF MatchAssignAt(text, i, key).found THEN MatchAssignAt(text, i, key)
         ELSE CapturesAssignFrom(text, i + 1, key)

match_regex_assign(search_str, key) == CapturesAssignFrom(search_str, 1, key)

DISTRIB_DESCRIPTION_EQ ==
    <<"D", "I", "S", "T", "R", "I", "B", "_",
      "D", "E", "S", "C", "R", "I", "P", "T", "I", "O", "N", "=">>
NAME_EQ == <<"N", "A", "M", "E", "=">>

\* The pattern (?P<shell_name>[^/]+)$ : the leftmost i from which the text
\* runs to its end without a '/', and is not empty
RECURSIVE CapturesShellFrom(_, _)
CapturesShellFrom(text, i) ==
    IF i > Len(text) THEN NoMatch
    ELSE IF \A k \in i..Len(text) : text[k] # SLASH
         THEN Match(SubSeq(text, i, Len(text)))
         ELSE CapturesShellFrom(text, i + 1)

match_regex_shell(search_str) == CapturesShellFrom(search_str, 1)

-----------------------------------------------------------------------------
(* The external sources *)

\* An environment variable: unset, set to text, or set to bytes that are not
\* valid UTF-8 (into_string fails)
Unset == [set |-> FALSE, utf8 |-> TRUE, text |-> <<>>]
SetTo(t) == [set |-> TRUE, utf8 |-> TRUE, text |-> t]
\* BADBYTE stands for a byte that no UTF-8 text holds (0xFF)
BADBYTE == "0xFF"
NotUnicode(t) == [set |-> TRUE, utf8 |-> FALSE, text |-> t \o <<BADBYTE>>]

\* gethostname: fails, gives bytes that are not UTF-8, or gives text
HostFails == [ok |-> FALSE, utf8 |-> TRUE, text |-> <<>>]
HostNotUtf8 == [ok |-> TRUE, utf8 |-> FALSE, text |-> <<>>]
Host(t) == [ok |-> TRUE, utf8 |-> TRUE, text |-> t]

\* A file: File::open fails, it opens but read_to_string fails, or it reads
Absent == [status |-> "absent", text |-> <<>>]
Unreadable == [status |-> "unreadable", text |-> <<>>]
Readable(t) == [status |-> "readable", text |-> t]

LSB_RELEASE == "/etc/lsb-release"
OS_RELEASE == "/etc/os-release"

\* Lines a release file may hold
LineDescription == DISTRIB_DESCRIPTION_EQ \o <<QUOTE, "U", SPACE, "2", QUOTE, NL>>
LineEmptyDescription == DISTRIB_DESCRIPTION_EQ \o <<NL>>
LineCodename == <<"D", "I", "S", "T", "R", "I", "B", "_", "C", "O", "D", "E">> \o NAME_EQ \o <<"j", NL>>
LineName == NAME_EQ \o <<QUOTE, "A", QUOTE, NL>>
LinePrettyName == <<"P", "R", "E", "T", "T", "Y", "_">> \o NAME_EQ \o <<"P", NL>>
LineNameNoNewline == NAME_EQ \o <<"B">>
Lines == {LineDescription, LineEmptyDescription, LineCodename, LineName,
          LinePrettyName, LineNameNoNewline}

Texts(n) == {Concat(ls) : ls \in SeqsUpTo(Lines, n)}
Files == {Absent, Unreadable} \cup {Readable(t) : t \in Texts(MaxLines)}
FewFiles == {Absent, Unreadable, Readable(LineCodename), Readable(LineName)}

NameChars == {"a", SPACE, EACUTE}
Names == SeqsUpTo(NameChars, MaxNameLen)
Users == {Unset, NotUnicode(<<"a">>)} \cup {SetTo(t) : t \in Names}
Hosts == {HostFails, HostNotUtf8} \cup {Host(t) : t \in Names}
FewUsers == {Unset, NotUnicode(<<"a">>), SetTo(<<"a">>)}
FewHosts == {HostFails, Host(<<"h">>)}

usr_bin_zsh == <<"/", "u", "s", "r", "/", "b", "i", "n", "/", "z", "s", "h">>
ShellChars == {SLASH, "z", "b"}
Shells == {Unset, NotUnicode(<<SLASH, "z">>), SetTo(usr_bin_zsh)}
              \cup {SetTo(t) : t \in SeqsUpTo(ShellChars, MaxShellLen)}
FewShells == {Unset, NotUnicode(<<SLASH, "z">>), SetTo(usr_bin_zsh)}

Secs == 0..MaxSecs
FewSecs == {0, 59, 3725}

\* BatteryLife.remaining_capacity, a fraction of 1, in thousandths
Capacities == {0, 505, 1000}

\* nix::sys::utsname::uname()
uname == [sysname |-> <<"L", "i", "n", "u", "x">>,
          machine |-> <<"x", "8", "6", "_", "6", "4">>,
          release |-> <<"6", ".", "1", ".", "0">>]

-----------------------------------------------------------------------------
(* get_user_host_name *)

Failed_getting_hostname == <<"F", "a", "i", "l", "e", "d", " ", "g", "e", "t", "t", "i", "n", "g", " ", "h", "o", "s", "t", "n", "a", "m", "e">>
Failed_decoding_hostname == <<"F", "a", "i", "l", "e", "d", " ", "d", "e", "c", "o", "d", "i", "n", "g", " ", "h", "o", "s", "t", "n", "a", "m", "e">>

\* The 33 spaces that indent the second line of the format string
Indent == [i \in 1..33 |-> SPACE]

RECURSIVE Dashes(_)
Dashes(n) == IF n = 0 THEN <<>> ELSE <<"-">> \o Dashes(n - 1)

\* A faulty variant: the 1 for the '@' is forgotten
user_host_name_len_no_at(username, host) == len(username) + len(host)

user_host_name_len(username, host) == len(username) + 1 + len(host)

format_user_host_name(username, host) ==
    replace(replace(<<yellow, bold>> \o username \o <<reset, NL>> \o Indent
                        \o <<bold, cyan, "@", reset, bold, yellow>> \o host
                        \o <<reset>>,
                    SPACE),
            NL)

get_user_host_name(username_env, host) ==
    IF username_env.set /\ ~username_env.utf8 THEN Panic
    ELSE LET username == IF username_env.set THEN username_env.text ELSE <<>>
         IN  IF ~host.ok THEN Err(Failed_getting_hostname)
             ELSE IF ~host.utf8 THEN Err(Failed_decoding_hostname)
             ELSE OkPair(format_user_host_name(username, host.text),
                         <<cyan>>
                             \o Dashes(user_host_name_len(username, host.text))
                             \o <<reset>>)

-----------------------------------------------------------------------------
(* get_distro_name *)

os_key == <<"o", "s">>

\* A faulty variant: a read error on lsb-release is treated like its absence
read_lsb_release_falls_through(lsb) ==
    IF lsb.status # "readable"
    THEN [returned |-> FALSE, ret |-> Err(<<>>), buffer |-> <<>>]
    ELSE LET re_lsb == match_regex_assign(lsb.text, DISTRIB_DESCRIPTION_EQ)
         IN  IF re_lsb.found
             THEN [returned |-> TRUE,
                   ret |-> Ok(format_data(os_key, re_lsb.capture)),
                   buffer |-> lsb.text]
             ELSE [returned |-> FALSE, ret |-> Err(<<>>), buffer |-> lsb.text]

\* Lines 76-106: what the lsb-release step does.  returned: the function
\* returned ret; otherwise it goes on with buffer
read_lsb_release(lsb) ==
    IF lsb.status = "absent"
    THEN [returned |-> FALSE, ret |-> Err(<<>>), buffer |-> <<>>]
    ELSE IF lsb.status = "unreadable"
    THEN [returned |-> TRUE, ret |-> Err(error_lower), buffer |-> <<>>]
    ELSE LET buffer == lsb.text
             re_lsb == match_regex_assign(buffer, DISTRIB_DESCRIPTION_EQ)
         IN  IF re_lsb.found
             THEN [returned |-> TRUE,
                   ret |-> Ok(format_data(os_key, re_lsb.capture)),
                   buffer |-> buffer]
             ELSE [returned |-> FALSE, ret |-> Err(<<>>), buffer |-> buffer]

\* A faulty variant: a missing os-release returns the message of the other failures
read_os_release_same_error(os, buffer) ==
    IF os.status # "readable" THEN Err(error_lower)
    ELSE LET re_os == match_regex_assign(buffer \o os.text, NAME_EQ)
         IN  IF re_os.found THEN Ok(format_data(os_key, re_os.capture))
             ELSE Err(error_lower)

\* Lines 109-139: read_to_string appends os-release to the same buffer
read_os_release(os, buffer) ==
    IF os.status = "absent" THEN Err(Error_upper)
    ELSE IF os.status = "unreadable" THEN Err(error_lower)
    ELSE LET re_os == match_regex_assign(buffer \o os.text, NAME_EQ)
         IN  IF re_os.found THEN Ok(format_data(os_key, re_os.capture))
             ELSE Err(error_lower)

get_distro_name(lsb, os) ==
    LET step1 == read_lsb_release(lsb)
    IN  IF step1.returned
        THEN [ret |-> step1.ret, opened |-> <<LSB_RELEASE>>]
        ELSE [ret |-> read_os_release(os, step1.buffer),
              opened |-> <<LSB_RELEASE, OS_RELEASE>>]

-----------------------------------------------------------------------------
(* get_kernel, get_shell *)

kernel_key == <<"k", "e", "r", "n", "e", "l">>
shell_key == <<"s", "h", "e", "l", "l">>

get_kernel(flag) ==
    Ok(format_data(kernel_key,
                   IF flag THEN uname.sysname \o <<SLASH>> \o uname.machine
                   ELSE uname.release))

get_shell(shell_env) ==
    IF ~shell_env.set THEN Err(Error_upper)
    ELSE IF ~shell_env.utf8 THEN Panic
    ELSE LET re_shell == match_regex_shell(shell_env.text)
         IN  IF ~re_shell.found THEN Err(Error_upper)
             ELSE Ok(format_data(shell_key, re_shell.capture))

-----------------------------------------------------------------------------
(* format_uptime, format_battery *)

uptime_key == <<"u", "p", "t", "i", "m", "e">>
battery_key == <<"b", "a", "t", "t", "e", "r", "y">>
remaining == <<"r", "e", "m", "a", "i", "n", "i", "n", "g">>

uptime_hours(uptime_seconds) == uptime_seconds \div (60 * 60)
\* A faulty variant: the minutes taken as a remainder against 60
uptime_minutes_mod60(uptime_seconds) == uptime_seconds % 60

uptime_minutes(uptime_seconds) == (uptime_seconds % (60 * 60)) \div 60

format_uptime(t) ==
    format_data(uptime_key,
                Display(uptime_hours(t)) \o <<"h", SPACE>>
                    \o Display(uptime_minutes(t)) \o <<"m">>)

battery_hours(secs) == secs \div 3600
\* A faulty variant: the minutes computed the way format_uptime computes them
battery_minutes_of_hour(secs) == (secs % 3600) \div 60

battery_minutes(secs) == secs % 60

\* (remaining_capacity * 100.0).trunc(), the capacity given in thousandths
battery_percent(capacity) == (capacity * 100) \div 1000

format_battery(capacity, remaining_time) ==
    format_data(battery_key,
                Display(battery_percent(capacity)) \o <<"%", ",", SPACE>>
                    \o Display(battery_hours(remaining_time)) \o <<"h", SPACE>>
                    \o Display(battery_minutes(remaining_time)) \o <<"m", SPACE>>
                    \o remaining)

-----------------------------------------------------------------------------------------------------------------------------------------------------
(* The state machine *)

NoCall == [probe |-> "none", outcome |-> "none", value |-> <<>>,
           separator |-> <<>>]

Returned(probe, r) ==
    [probe |-> probe, outcome |-> r.outcome, value |-> r.value,
     separator |-> r.separator]

\* The external sources are in one of the given states, nothing was called
InitWith(UserSet, HostSet, FileSet, ShellSet, SecSet, CapacitySet) ==
    /\ USER \in UserSet
    /\ hostname \in HostSet
    /\ lsb_release \in FileSet
    /\ os_release \in FileSet
    /\ SHELL \in ShellSet
    /\ time \in [secs : SecSet, capacity : CapacitySet]
    /\ show_kern_name = FALSE
    /\ opened = <<>>
    /\ result = NoCall

sources == <<USER, hostname, lsb_release, os_release, SHELL, time>>

\* A panic aborts the program: nothing runs after it
Running == result.outcome # "panic"

GetUserHostName ==
    /\ Running
    /\ result' = Returned("get_user_host_name", get_user_host_name(USER, hostname))
    /\ opened' = <<>>
    /\ UNCHANGED <<sources, show_kern_name>>

GetDistroName ==
    /\ Running
    /\ LET r == get_distro_name(lsb_release, os_release)
       IN  /\ result' = Returned("get_distro_name", r.ret)
           /\ opened' = r.opened
    /\ UNCHANGED <<sources, show_kern_name>>

GetKernel ==
    /\ Running
    /\ \E flag \in BOOLEAN :
          /\ show_kern_name' = flag
          /\ result' = Returned("get_kernel", get_kernel(flag))
    /\ opened' = <<>>
    /\ UNCHANGED sources

GetShell ==
    /\ Running
    /\ result' = Returned("get_shell", get_shell(SHELL))
    /\ opened' = <<>>
    /\ UNCHANGED <<sources, show_kern_name>>

FormatUptime ==
    /\ Running
    /\ result' = Returned("format_uptime", Ok(format_uptime(time.secs)))
    /\ opened' = <<>>
    /\ UNCHANGED <<sources, show_kern_name>>

FormatBattery ==
    /\ Running
    /\ result' = Returned("format_battery",
                          Ok(format_battery(time.capacity, time.secs)))
    /\ opened' = <<>>
    /\ UNCHANGED <<sources, show_kern_name>>

\* Every probe and formatter, over a few states of each source
Init == InitWith(FewUsers, FewHosts, FewFiles, FewShells, FewSecs, {505})

Next ==
    \/ GetUserHostName
    \/ GetDistroName
    \/ GetKernel
    \/ GetShell
    \/ FormatUptime
    \/ FormatBattery

Spec == Init /\ [][Next]_vars

\* One probe at a time, over all the bounded states of its sources
InitIdentity == InitWith(Users, Hosts, {Absent}, {Unset}, {0}, {0})
NextIdentity == GetUserHostName
SpecIdentity == InitIdentity /\ [][NextIdentity]_vars

InitDistro == InitWith({Unset}, {HostFails}, Files, {Unset}, {0}, {0})
NextDistro == GetDistroName
SpecDistro == InitDistro /\ [][NextDistro]_vars

InitShell == InitWith({Unset}, {HostFails}, {Absent}, Shells, {0}, {0})
NextShell == GetShell
SpecShell == InitShell /\ [][NextShell]_vars

InitTime == InitWith({Unset}, {HostFails}, {Absent}, {Unset}, Secs, Capacities)
NextTime == FormatUptime \/ FormatBattery
SpecTime == InitTime /\ [][NextTime]_vars

-----------------------------------------------------------------------------
(* Reading a returned line back *)

RECURSIVE Count(_, _)
Count(s, c) == IF s = <<>> THEN 0
               ELSE (IF Head(s) = c THEN 1 ELSE 0) + Count(Tail(s), c)

\* The characters of s that are not style tokens
RECURSIVE Visible(_)
Visible(s) == IF s = <<>> THEN <<>>
              ELSE IF Head(s) \in StyleTokens THEN Visible(Tail(s))
              ELSE <<Head(s)>> \o Visible(Tail(s))

\* The value part of a line format_data made: what follows the 14 elements
\* of bullet, padded key and style tokens
ShownValue(line) == SubSeq(line, 15, Len(line))

IsDigit(c) == \E d \in 0..9 : Digit(d) = c
DigitValue(c) == CHOOSE d \in 0..9 : Digit(d) = c

\* The index of the last digit of the digits that start at i (i - 1 if none)
RECURSIVE DigitsEnd(_, _)
DigitsEnd(txt, i) == IF i <= Len(txt) /\ IsDigit(txt[i]) THEN DigitsEnd(txt, i + 1)
                     ELSE i - 1

RECURSIVE ParseNat(_)
ParseNat(ds) == IF ds = <<>> THEN 0
                ELSE 10 * ParseNat(SubSeq(ds, 1, Len(ds) - 1))
                         + DigitValue(ds[Len(ds)])

\* "<hours>h <minutes>m" starting at position i of txt, read back as numbers
HoursMinutesAt(txt, i) ==
    LET e1 == DigitsEnd(txt, i)
        e2 == DigitsEnd(txt, e1 + 3)
    IN  IF /\ e1 >= i
           /\ e1 + 2 <= Len(txt) /\ txt[e1 + 1] = "h" /\ txt[e1 + 2] = SPACE
           /\ e2 >= e1 + 3
           /\ e2 + 1 <= Len(txt) /\ txt[e2 + 1] = "m"
        THEN [ok |-> TRUE, hours |-> ParseNat(SubSeq(txt, i, e1)),
              minutes |-> ParseNat(SubSeq(txt, e1 + 3, e2)), end |-> e2 + 1]
        ELSE [ok |-> FALSE, hours |-> 0, minutes |-> 0, end |-> 0]

\* What format_uptime's line shows
UptimeShown(line) == HoursMinutesAt(ShownValue(line), 1)

\* What format_battery's line shows after "<percent>%, "
BatteryShown(line) ==
    LET txt == ShownValue(line)
        e0 == DigitsEnd(txt, 1)
    IN  HoursMinutesAt(txt, e0 + 4)

\* The path segment after the last '/' of a value (the whole value without one)
RECURSIVE TrailingSegment(_)
TrailingSegment(v) ==
    IF v = <<>> \/ v[Len(v)] = SLASH THEN <<>>
    ELSE TrailingSegment(SubSeq(v, 1, Len(v) - 1)) \o <<v[Len(v)]>>

Called(probe) == result.probe = probe

-----------------------------------------------------------------------------
(* Claims about get_distro_name, under SpecDistro *)

LsbMatch == match_regex_assign(lsb_release.text, DISTRIB_DESCRIPTION_EQ)
OsMatch == match_regex_assign(os_release.text, NAME_EQ)
LsbYields == lsb_release.status = "readable" /\ LsbMatch.found
OsYields == os_release.status = "readable" /\ OsMatch.found
\* Step 1 gave no file or no match (a read error is neither)
FellBack == \/ lsb_release.status = "absent"
            \/ lsb_release.status = "readable" /\ ~LsbMatch.found

\* C1: the sources are tried in order and the first success wins: a
\* DISTRIB_DESCRIPTION= assignment in a readable lsb-release gives Ok with that
\* description; otherwise, when step 1 gave no file or no match, a NAME=
\* assignment of os-release gives Ok with that name; when neither source
\* yields a match the result is Err.
C1_OrderedFallback ==
    Called("get_distro_name") =>
        /\ LsbYields =>
              /\ result.outcome = "Ok"
              /\ result.value = format_data(os_key, LsbMatch.capture)
        /\ (FellBack /\ OsYields) =>
              /\ result.outcome = "Ok"
              /\ result.value = format_data(os_key, OsMatch.capture)
        /\ (~LsbYields /\ ~OsYields) => result.outcome = "Err"

\* C2: a name returned by step 2 is the value of a NAME= assignment found in
\* the contents of /etc/os-release, never text read from /etc/lsb-release.
C2_Step2NameFromOsRelease ==
    (Called("get_distro_name") /\ FellBack /\ result.outcome = "Ok") =>
        \E i \in 1..Len(os_release.text) :
            /\ MatchAssignAt(os_release.text, i, NAME_EQ).found
            /\ result.value =
                   format_data(os_key,
                               MatchAssignAt(os_release.text, i, NAME_EQ).capture)

\* C8 as claimed: every failure of get_distro_name returns one and the same
\* error value (the one a read error gives), whatever its cause.
C8_OneErrorValue ==
    (Called("get_distro_name") /\ result.outcome = "Err") =>
        result.value = error_lower

\* C8 as amended: a failure returns "Error" when /etc/os-release was reached
\* and could not be opened, and "error" for every other cause (a read error on
\* either file, no match in any source).
C8_TwoErrorValues ==
    (Called("get_distro_name") /\ result.outcome = "Err") =>
        result.value =
            IF FellBack /\ os_release.status = "absent"
            THEN Error_upper ELSE error_lower

C8_Witness ==
    /\ Called("get_distro_name")
    /\ lsb_release = Readable(LineCodename \o LineEmptyDescription)
    /\ os_release = Absent
    /\ result.outcome = "Err"
    /\ result.value = Error_upper

\* C9: a read error on an opened lsb-release returns Err at once, without
\* opening os-release; os-release is opened exactly when lsb-release is absent
\* or was read without a DISTRIB_DESCRIPTION match.
C9_ReadErrorStopsProbe ==
    Called("get_distro_name") =>
        /\ lsb_release.status = "unreadable" =>
              /\ result.outcome = "Err"
              /\ opened = <<LSB_RELEASE>>
        /\ (\E k \in 1..Len(opened) : opened[k] = OS_RELEASE) <=> FellBack

C9_Witness ==
    /\ Called("get_distro_name")
    /\ lsb_release = Unreadable
    /\ os_release = Readable(LineName)
    /\ result.outcome = "Err"
    /\ opened = <<LSB_RELEASE>>

-----------------------------------------------------------------------------
(* Claims about get_user_host_name, under SpecIdentity *)

username_text == IF USER.set THEN USER.text ELSE <<>>

\* C3: whenever get_user_host_name returns Ok, the separator holds exactly
\* len(username) + 1 + len(hostname) dashes (len as str::len), and
\* 1 + len(hostname) of them when USER is unset.
C3_SeparatorLength ==
    (Called("get_user_host_name") /\ result.outcome = "Ok") =>
        /\ Count(result.separator, "-")
               = len(username_text) + 1 + len(hostname.text)
        /\ ~USER.set => Count(result.separator, "-") = 1 + len(hostname.text)

C3_Witness ==
    /\ Called("get_user_host_name")
    /\ result.outcome = "Ok"
    /\ ~USER.set
    /\ hostname = Host(<<"a", EACUTE>>)
    /\ Count(result.separator, "-") = 4

\* C10: the number of dashes equals the number of characters of the user@host
\* text left in the identity line after spaces and newlines were stripped.
C10_SeparatorUnderlinesIdentity ==
    (Called("get_user_host_name") /\ result.outcome = "Ok") =>
        Count(result.separator, "-") = Len(Visible(result.value))

-----------------------------------------------------------------------------
(* Claims about get_shell, under SpecShell *)

\* C5: get_shell returns Err when SHELL is unset; when SHELL is set it returns
\* Ok with the segment after the last '/' of the value, and Err exactly when
\* that segment is empty; for /usr/bin/zsh the value is zsh.
C5_ShellBasename ==
    Called("get_shell") =>
        /\ ~SHELL.set => result.outcome = "Err"
        /\ SHELL.set =>
              IF TrailingSegment(SHELL.text) = <<>>
              THEN result.outcome = "Err"
              ELSE /\ result.outcome = "Ok"
                   /\ ShownValue(result.value) = TrailingSegment(SHELL.text)
        /\ SHELL = SetTo(usr_bin_zsh) =>
              ShownValue(result.value) = <<"z", "s", "h">>

\* get_shell on every SHELL value that is text (valid UTF-8): Err when the
\* segment after the last '/' is empty, Ok with that segment otherwise.
ShellBasenameOnText ==
    (Called("get_shell") /\ SHELL.set /\ SHELL.utf8) =>
        IF TrailingSegment(SHELL.text) = <<>>
        THEN result.outcome = "Err"
        ELSE /\ result.outcome = "Ok"
             /\ ShownValue(result.value) = TrailingSegment(SHELL.text)

-----------------------------------------------------------------------------
(* Claims about the four probes together, under Spec *)

Probes == {"get_user_host_name", "get_distro_name", "get_kernel", "get_shell"}

\* C4: in every state of the external sources each probe returns Ok or Err
\* and never aborts, and an unset USER is tolerated: it gives Ok with an empty
\* user name when the host name is available.
C4_ProbesNeverAbort ==
    /\ result.probe \in Probes => result.outcome \in {"Ok", "Err"}
    /\ (Called("get_user_host_name") /\ ~USER.set
            /\ hostname.ok /\ hostname.utf8) =>
          /\ result.outcome = "Ok"
          /\ Head(Visible(result.value)) = "@"

-----------------------------------------------------------------------------
(* Claims about format_uptime and format_battery, under SpecTime *)

\* C6: format_uptime shows h = s div 3600 and m = (s mod 3600) div 60, the
\* seconds dropped: 0 <= m <= 59 and 3600h + 60m <= s < 3600h + 60m + 60;
\* 3725 seconds show as "1h 2m".
C6_UptimeHoursMinutes ==
    Called("format_uptime") =>
        LET s == time.secs
            shown == UptimeShown(result.value)
            h == shown.hours
            m == shown.minutes
        IN  /\ shown.ok
            /\ shown.end = Len(ShownValue(result.value))
            /\ h = s \div 3600
            /\ m = (s % 3600) \div 60
            /\ 0 <= m /\ m <= 59
            /\ 3600 * h + 60 * m <= s
            /\ s < 3600 * h + 60 * m + 60
            /\ s = 3725 => ShownValue(result.value) = <<"1", "h", SPACE, "2", "m">>

C6_Witness ==
    /\ Called("format_uptime")
    /\ time.secs = 3725
    /\ ShownValue(result.value) = <<"1", "h", SPACE, "2", "m">>

\* C7: format_battery shows hours = s div 3600 and minutes = s mod 60, so the
\* minutes are in 0..59 but differ from the minutes format_uptime shows for
\* the same duration whenever s mod 60 differs from (s mod 3600) div 60.
C7_BatteryMinutesMod60 ==
    Called("format_battery") =>
        LET s == time.secs
            shown == BatteryShown(result.value)
        IN  /\ shown.ok
            /\ shown.hours = s \div 3600
            /\ shown.minutes = s % 60
            /\ 0 <= shown.minutes /\ shown.minutes <= 59
            /\ (s % 60 # (s % 3600) \div 60) =>
                  shown.minutes # UptimeShown(format_uptime(s)).minutes

C7_Witness ==
    /\ Called("format_battery")
    /\ time.secs = 3725
    /\ BatteryShown(result.value).ok
    /\ BatteryShown(result.value).hours = 1
    /\ BatteryShown(result.value).minutes = 5
    /\ UptimeShown(format_uptime(time.secs)).minutes = 2

====
